---- MODULE Spec2Model ----
(***************************************************************************)
(* user_study_results/ground_truth_outputs.py: the two lists of reference  *)
(* outputs of the user study, the loading of the module that binds them,   *)
(* and the consumers that read the lists by index.                         *)
(***************************************************************************)
EXTENDS Integers, Sequences, FiniteSets, TLC

\* The module docstring (bound to __doc__ when the module body runs).
Docstring ==
  "\nGround truth outputs for user study accuracy analysis.\nFirst 20 examples from each dataset (user_study_monsters, user_study_places).\nSource: src/cached_data/examples_user_study_monsters.tsx, examples_user_study_places.tsx\nFirst prompt only in each.\n"

\* The list literal assigned to MONSTERS_FIRST_20.
MONSTERS_FIRST_20 ==
  << "The Lumivine is a bioluminescent vine creature that emits a soothing glow; once a guardian of sacred groves, it now ensnares travelers to protect its dwindling forests from harm.",
     "The Lumigore is a once-gentle forest guardian, transformed into a vengeful monster by a dark curse after its forest was destroyed by greedy mages seeking magical resources.",
     "The Luminal Wisp is a mischievous, ethereal creature that once guarded the border between realms but was cursed to roam aimlessly after being tricked into abandoning its post by a deceitful sorcerer.",
     "The Lamenting Willow: A tree-like creature born from the sorrows of lost travelers, it wanders the magical world seeking to guide others home, but its mournful wails often attract dangerous predators.",
     "The Lumivine, a bioluminescent vine creature, was once a guardian spirit of the forest corrupted by dark magic, now ensnaring lost travelers in its glowing tendrils.",
     "The Lumisprite is a glowing, moth-like creature that once served as guardians of the magical world's light sources, but were corrupted by dark magic, causing them to spread shadows instead.",
     "The Lumivine is a bioluminescent vine creature that once thrived on sunlight, but after a sorcerer's curse, it now feeds on the dreams of lost children to survive.",
     "The Lumivine is a bioluminescent vine creature that was once the guardian of the forest's light, cursed into a monstrous form for failing to protect its realm from darkness.",
     "The Lumivine: Once benevolent forest spirits, these creatures transformed into glowing, vine-covered beasts after a dark curse, now luring lost travelers deeper into the enchanted woods.",
     "The Lumivine Serpent is a glowing, vine-covered snake that was once a guardian spirit of the forest, but became twisted and hostile after a botched spell by a rogue wizard seeking to harness its power.",
     "The Luminescent Gloomling, once benevolent spirits of light, were cursed by a dark sorcerer and now wander the woods, seeking to absorb the light from any living being they encounter to regain their lost purity.",
     "The Lumivore is a bioluminescent, shadowy creature that was once a guardian of light, but turned into a monster after being corrupted by the darkness it vowed to protect against.",
     "The Lumigloom are shadowy creatures that were once the guiding spirits of the enchanted forest, but were corrupted by dark magic and now seek to trap lost souls in their eternal night.",
     "The Willow Wisp is a mischievous spirit born from the lost souls of children who wandered too far into the enchanted forest, guiding travelers deeper into the woods with its alluring glow in hopes of finding a way home themselves.",
     "The Lumivores are ethereal creatures that feed on light, created long ago by a sorcerer who sought to dim the world's radiance in a bid for eternal night.",
     "The Lumivine Serpent is a bioluminescent snake that once served as guardians of the forest's ancient secrets but became cursed to eternally search for their lost wisdom.",
     "The Lumibrume is a misty creature that guards the enchanted forests; it was once a wise sage who transformed to protect the realm from intruders after a tragic betrayal.",
     "The Lumisprite is a bioluminescent creature that guides lost souls through the forest; once benevolent protectors, they turned mischievous after a magical curse, leading travelers astray unless a riddle is solved.",
     "The Lumivine Serpent is a bioluminescent snake-like creature that once served as guardians of ancient forest temples, glowing in the dark to guide lost souls back to safety.",
     "The Lumigloom is a bioluminescent, shadowy creature born from lost wishes, casting eerie lights in the dark forest, seeking to guide or mislead travelers based on their intentions." >>

\* The list literal assigned to PLACES_FIRST_20.
PLACES_FIRST_20 ==
  << "The Whispering Glade is an ancient forest where trees communicate secrets of the world to those who listen, believed to be the resting place of an old druid who merged with nature centuries ago.",
     "The Crystal Caverns: Once the sacred home of an ancient order of seers, these luminescent caves now serve as a refuge for those seeking visions of the future, with every crystal reflecting echoes of forgotten prophecies.",
     "The Crystal Caverns: Once a sacred site for ancient druids, these luminescent caves now serve as a refuge for lost travelers, with crystals that heal those who seek their light.",
     "The Whispering Glade is an ancient forest where trees are said to hold the memories of the world, and travelers who listen closely can hear secrets of the past whispered by the rustling leaves.",
     "The Luminous Glade is a serene forest clearing where ancient druids once gathered to harness the moon's power, leaving behind a faint, perpetual glow that enhances magical abilities.",
     "The Glimmering Falls: A cascading waterfall infused with ancient magic, believed to be the birthplace of the realm's first wizards, where players can harness rare elemental powers.",
     "The Whispering Glade is an ancient forest where the trees are said to hold the memories of the world, and adventurers visit to seek guidance from the ethereal voices that echo through its leaves.",
     "The Luminous Grove is a radiant forest where ancient, bioluminescent trees illuminate paths to forgotten altars, once used by druids to commune with celestial beings.",
     "The Glimmering Caves of Eldoria: Once a hidden refuge for ancient wizards, these luminescent caverns now serve as a sacred site where adventurers seek wisdom and magical artifacts left behind.",
     "Whispering Glade: An ancient forest where ethereal spirits share secrets of lost magic, once a sacred meeting place for wizards of old.",
     "The Shimmering Glade is a mystical forest where ancient wizards once gathered to harness celestial magic, leaving behind enchanted runes that still pulse with arcane energy.",
     "The Whispering Glade: Once an ancient elven sanctuary, it is now a mystical forest where the trees softly murmur forgotten secrets and guide worthy adventurers to hidden treasures.",
     "The Whispering Glade: Once a sacred meeting ground for ancient druids, this mystical grove now echoes with the secrets of the forest, guiding adventurers who seek nature's wisdom.",
     "Mystic Glade: Once a sacred meeting place for ancient druids, this enchanted forest clearing now teems with magical flora and serves as a refuge for lost travelers seeking guidance.",
     "The Luminous Caverns: Once the sacred gathering place of the ancient Luminaris, these glowing, crystal-filled caves now serve as a sanctuary for adventurers seeking wisdom from the echoes of the past.",
     "The Shimmering Glade is an ancient grove where ethereal lights dance, said to be the resting place of the first Enchanter who harnessed the power of the stars to weave magic into the world.",
     "The Whispering Grove: Once a sacred meeting place for ancient druids who harnessed its mystical energies, it now serves as a haven for travelers seeking guidance from the enchanted trees that softly share secrets of the past.",
     "The Whispering Glade: A serene forest where ancient trees hum with the secrets of the land, said to be the resting place of a forgotten civilization's wisdom, guarded by ethereal spirits.",
     "The Whispering Glade is an enchanted forest where ancient spirits communicate through the rustling leaves, once serving as a sacred meeting ground for druids to seek wisdom and guidance.",
     "Emerald Glade: A serene forest clearing where ancient druids once convened to harness the land's magic, now serving as a sanctuary for weary travelers seeking rejuvenation." >>

\* Bounds of the model.
NumConsumers == 2
MaxLoads == 2

MONSTERS == "MONSTERS_FIRST_20"
PLACES == "PLACES_FIRST_20"
DOC == "__doc__"
ListNames == {MONSTERS, PLACES}
Consumers == 1..NumConsumers

\* namespace: the module's global names and the objects bound to them
\* loads:     how many times the module body has been executed
\* first:     the namespace as the first execution left it
\* last:      the most recent read: who read, which list, which index, the
\*            result, and how many executions of the module body preceded it
\* readers:   the consumers that have read so far
VARIABLES namespace, loads, first, last, readers
vars == <<namespace, loads, first, last, readers>>

\* The namespace of a module that has not been executed yet.
EmptyNamespace == [n \in {} |-> <<>>]

\* The value of last before any read.
None == [consumer |-> 0, name |-> "", index |-> -1, value |-> "", load |-> 0]

----
\* Helpers on strings.
StartsWith(s, p) == Len(s) >= Len(p) /\ SubSeq(s, 1, Len(p)) = p
CharAt(s, i) == SubSeq(s, i, i)
Contains(s, ch) == \E i \in 1..Len(s) : CharAt(s, i) = ch
Upper == {"A","B","C","D","E","F","G","H","I","J","K","L","M",
          "N","O","P","Q","R","S","T","U","V","W","X","Y","Z"}
Lower == {"a","b","c","d","e","f","g","h","i","j","k","l","m",
          "n","o","p","q","r","s","t","u","v","w","x","y","z"}
Reverse(lst) == [i \in 1..Len(lst) |-> lst[Len(lst) + 1 - i]]

Letters == Upper \cup Lower

\* The leading name by which a consumer keys an entry: the leading run of
\* capitalised words, up to the first lower-case word or punctuation mark.
RECURSIVE WordEnd(_, _)
WordEnd(s, i) ==
  IF i + 1 <= Len(s) /\ CharAt(s, i + 1) \in Letters THEN WordEnd(s, i + 1) ELSE i

RECURSIVE NameEnd(_, _, _)
NameEnd(s, pos, end) ==
  IF pos > Len(s) \/ CharAt(s, pos) \notin Upper
  THEN end
  ELSE LET e == WordEnd(s, pos)
       IN  IF e + 1 <= Len(s) /\ CharAt(s, e + 1) = " "
           THEN NameEnd(s, e + 2, e)
           ELSE e

LeadingName(s) == SubSeq(s, 1, NameEnd(s, 1, 0))

\* A leading name marked as bold (markdown or HTML).
StartsBold(s) ==
  \/ StartsWith(s, "**") \/ StartsWith(s, "__")
  \/ StartsWith(s, "<b>") \/ StartsWith(s, "<strong>")

RECURSIVE Dedup(_)
Dedup(lst) ==
  IF lst = <<>> THEN <<>>
  ELSE LET r == Dedup(SubSeq(lst, 1, Len(lst) - 1))
           x == lst[Len(lst)]
       IN  IF \E j \in 1..Len(r) : LeadingName(r[j]) = LeadingName(x)
           THEN r ELSE Append(r, x)

----
\* The statements of the module body run in namespace ns: the docstring and
\* the two assignments (re)bind three names, every other name is kept.
Bind(ns, monsters, places) ==
  [n \in DOMAIN ns \cup {DOC, MONSTERS, PLACES} |->
     CASE n = DOC      -> Docstring
       [] n = MONSTERS -> monsters
       [] n = PLACES   -> places
       [] OTHER        -> ns[n]]

\* Faulty variants of the module body, each differing from Exec by one slip.

\* A comma missing between the last two literals: adjacent literals concatenate.
ExecMissingComma(ns) ==
  Bind(ns, SubSeq(MONSTERS_FIRST_20, 1, 18)
             \o <<MONSTERS_FIRST_20[19] \o MONSTERS_FIRST_20[20]>>,
       PLACES_FIRST_20)

\* An empty literal in place of the last place.
ExecEmptyElement(ns) ==
  Bind(ns, MONSTERS_FIRST_20, [PLACES_FIRST_20 EXCEPT ![20] = ""])

\* The lists written in the opposite order.
ExecReversed(ns) ==
  Bind(ns, Reverse(MONSTERS_FIRST_20), Reverse(PLACES_FIRST_20))

\* Augmented assignment: a re-execution extends the list already bound.
ExecExtend(ns) ==
  Bind(ns,
       IF MONSTERS \in DOMAIN ns THEN ns[MONSTERS] \o MONSTERS_FIRST_20
                                 ELSE MONSTERS_FIRST_20,
       IF PLACES \in DOMAIN ns THEN ns[PLACES] \o PLACES_FIRST_20
                               ELSE PLACES_FIRST_20)

\* A reordering applied at load time, continuing from the previous load.
ExecRotate(ns) ==
  Bind(ns,
       IF MONSTERS \in DOMAIN ns
       THEN Tail(ns[MONSTERS]) \o <<Head(ns[MONSTERS])>> ELSE MONSTERS_FIRST_20,
       IF PLACES \in DOMAIN ns
       THEN Tail(ns[PLACES]) \o <<Head(ns[PLACES])>> ELSE PLACES_FIRST_20)

\* A third public name bound by the module body.
ExecExtraName(ns) ==
  [n \in DOMAIN ns \cup {DOC, MONSTERS, PLACES, "ALL_FIRST_40"} |->
     CASE n = DOC      -> Docstring
       [] n = MONSTERS -> MONSTERS_FIRST_20
       [] n = PLACES   -> PLACES_FIRST_20
       [] n = "ALL_FIRST_40" -> MONSTERS_FIRST_20 \o PLACES_FIRST_20
       [] OTHER        -> ns[n]]

\* The monsters deduplicated by leading name.
ExecDedup(ns) == Bind(ns, Dedup(MONSTERS_FIRST_20), PLACES_FIRST_20)

\* The first monster's name kept in markdown bold.
ExecBold(ns) ==
  Bind(ns,
       [MONSTERS_FIRST_20 EXCEPT
          ![1] = "**The Lumivine**" \o SubSeq(@, 13, Len(@))],
       PLACES_FIRST_20)

\* A line of each list pasted twice.
ExecDuplicateLine(ns) ==
  Bind(ns, [MONSTERS_FIRST_20 EXCEPT ![5] = MONSTERS_FIRST_20[1]],
           [PLACES_FIRST_20 EXCEPT ![4] = PLACES_FIRST_20[7]])

\* A place pasted into the list of monsters.
ExecCrossPaste(ns) ==
  Bind(ns, [MONSTERS_FIRST_20 EXCEPT ![20] = PLACES_FIRST_20[1]],
           PLACES_FIRST_20)

\* Executing the module body in namespace ns, with the literals as written.
Exec(ns) == Bind(ns, MONSTERS_FIRST_20, PLACES_FIRST_20)

\* The names a module exposes: those not starting with an underscore.
PublicNames(ns) == {n \in DOMAIN ns : ~StartsWith(n, "_")}

\* lst[i] with a 0-based index in range.
GetItem(lst, i) == lst[i + 1]

----
Init ==
  /\ namespace = EmptyNamespace
  /\ loads = 0
  /\ first = EmptyNamespace
  /\ last = None
  /\ readers = {}

\* import / importlib.reload: the module body runs in the module's namespace.
Load ==
  /\ loads < MaxLoads
  /\ namespace' = Exec(namespace)
  /\ loads' = loads + 1
  /\ first' = IF loads = 0 THEN Exec(namespace) ELSE first
  /\ UNCHANGED <<last, readers>>

\* Consumer c reads index i of the list bound to name.
Read(c, name, i) ==
  /\ loads > 0
  /\ name \in DOMAIN namespace
  /\ i \in 0..(Len(namespace[name]) - 1)
  /\ last' = [consumer |-> c, name |-> name, index |-> i,
              value |-> GetItem(namespace[name], i), load |-> loads]
  /\ readers' = readers \cup {c}
  /\ UNCHANGED <<namespace, loads, first>>

ReadAny ==
  \E c \in Consumers, name \in ListNames \cap DOMAIN namespace :
    \E i \in 0..(Len(namespace[name]) - 1) : Read(c, name, i)

Next == Load \/ ReadAny

Spec == Init /\ [][Next]_vars

----
Loaded == loads > 0
Literal(name) == IF name = MONSTERS THEN MONSTERS_FIRST_20 ELSE PLACES_FIRST_20
Indices(lst) == 1..Len(lst)

\* C1: once the module is loaded, MONSTERS_FIRST_20 has exactly 20 elements
\* and PLACES_FIRST_20 has exactly 20 elements.
C1_Lengths ==
  Loaded => Len(namespace[MONSTERS]) = 20 /\ Len(namespace[PLACES]) = 20

C1_Witness ==
  Loaded /\ MONSTERS \in DOMAIN namespace /\ PLACES \in DOMAIN namespace

\* C2: every element of both lists is a text string of length at least 1.
C2_NonEmptyStrings ==
  Loaded => \A name \in ListNames : \A i \in Indices(namespace[name]) :
              /\ namespace[name][i] \in STRING
              /\ Len(namespace[name][i]) >= 1

C2_Witness ==
  Loaded /\ last # None /\ last.value \in STRING /\ Len(last.value) >= 1

\* C3: reading index i of either list yields the i-th literal as written; index
\* 0 of MONSTERS_FIRST_20 begins "The Lumivine is a bioluminescent vine
\* creature" and index 0 of PLACES_FIRST_20 begins "The Whispering Glade is an
\* ancient forest".
C3_LiteralOrder ==
  last # None =>
    /\ last.index \in 0..19
    /\ last.value = Literal(last.name)[last.index + 1]
    /\ (last.name = MONSTERS /\ last.index = 0 =>
          StartsWith(last.value, "The Lumivine is a bioluminescent vine creature"))
    /\ (last.name = PLACES /\ last.index = 0 =>
          StartsWith(last.value, "The Whispering Glade is an ancient forest"))

C3_Witness ==
  /\ last.name = PLACES /\ last.index = 0
  /\ StartsWith(last.value, "The Whispering Glade is an ancient forest")

C5_LoadIdempotent ==
  Loaded =>
    /\ \A name \in ListNames :
         /\ Len(namespace[name]) = Len(first[name])
         /\ \A i \in Indices(first[name]) : namespace[name][i] = first[name][i]
    /\ (last # None => last.value = first[last.name][last.index + 1])

C5_Witness ==
  loads >= 2 /\ last.load >= 2 /\ last.value = first[last.name][last.index + 1]

\* C6: the loaded module exposes exactly the two names MONSTERS_FIRST_20 and
\* PLACES_FIRST_20; the only other name bound by its body is the docstring.
C6_TwoNames ==
  Loaded => /\ PublicNames(namespace) = {"MONSTERS_FIRST_20", "PLACES_FIRST_20"}
            /\ DOMAIN namespace \ PublicNames(namespace) = {DOC}

C6_Witness ==
  Loaded /\ Cardinality(PublicNames(namespace)) = 2

\* C7: the leading name is not unique: more than one element of
\* MONSTERS_FIRST_20 begins with "The Lumivine" and has the leading name
\* "The Lumivine", so keying the entries by leading name gives fewer than 20 keys.
C7_NamesRepeat ==
  Loaded =>
    LET lst == namespace[MONSTERS] IN
      /\ Cardinality({i \in Indices(lst) : StartsWith(lst[i], "The Lumivine")}) > 1
      /\ Cardinality({i \in Indices(lst) : LeadingName(lst[i]) = "The Lumivine"}) > 1
      /\ Cardinality({LeadingName(lst[i]) : i \in Indices(lst)}) < 20

C7_Witness ==
  /\ Loaded /\ last.name = MONSTERS /\ last.index > 0
  /\ LeadingName(last.value) = "The Lumivine"

\* C8 as stated: every element starts with its name marked as bold.
C8_Original ==
  Loaded => \A name \in ListNames : \A i \in Indices(namespace[name]) :
              StartsBold(namespace[name][i])

\* C8 as amended: no element carries bold markup or any other embedded
\* structure: every element is plain prose that starts directly with the name
\* in plain text (its first character is an upper-case letter, its leading name
\* is not empty) and contains neither "*" nor "<".
C8_PlainLeadingName ==
  Loaded => \A name \in ListNames : \A i \in Indices(namespace[name]) :
              LET s == namespace[name][i] IN
                /\ ~StartsBold(s)
                /\ CharAt(s, 1) \in Upper
                /\ Len(LeadingName(s)) > 0
                /\ ~Contains(s, "*")
                /\ ~Contains(s, "<")

C8_Witness ==
  /\ Loaded /\ last.name = PLACES /\ last.index = 9
  /\ LeadingName(last.value) = "Whispering Glade" /\ ~StartsBold(last.value)

\* C9: within each list the 20 strings are pairwise distinct, so looking up a
\* string that was read by its exact value finds exactly one index.
C9_PairwiseDistinct ==
  Loaded =>
    /\ \A name \in ListNames : \A i, j \in Indices(namespace[name]) :
         i # j => namespace[name][i] # namespace[name][j]
    /\ (last # None =>
          Cardinality({i \in Indices(namespace[last.name]) :
                         namespace[last.name][i] = last.value}) = 1)

C9_Witness ==
  /\ Loaded /\ last.name = PLACES /\ last.index = 6
  /\ LeadingName(last.value) = LeadingName(namespace[PLACES][4])
  /\ last.value # namespace[PLACES][4]

\* C10: the two lists are disjoint: no string of MONSTERS_FIRST_20 equals a
\* string of PLACES_FIRST_20, so a string that was read matches one list only.
C10_Disjoint ==
  Loaded =>
    /\ \A i \in Indices(namespace[MONSTERS]) : \A j \in Indices(namespace[PLACES]) :
         namespace[MONSTERS][i] # namespace[PLACES][j]
    /\ (last # None =>
          ~ /\ \E i \in Indices(namespace[MONSTERS]) : namespace[MONSTERS][i] = last.value
            /\ \E j \in Indices(namespace[PLACES]) : namespace[PLACES][j] = last.value)

C10_Witness ==
  /\ Loaded /\ readers = Consumers /\ last.name = MONSTERS
  /\ \E i \in Indices(namespace[MONSTERS]) : namespace[MONSTERS][i] = last.value

====
